---- MODULE Spec2Model ----
(***************************************************************************)
(* Part ingestion of the S3 server: objectPutPart (lib/api/objectPutPart)  *)
(* and the object data writer dataStore (storeObject).                     *)
(*                                                                         *)
(* Strings are sequences of one-character strings (a part number, a size)  *)
(* or sequences of tokens (names and keys); string concatenation is \o.    *)
(* JavaScript numbers are records [nan, neg, digits] with canonical        *)
(* decimal digits, so that 5368709120 needs no machine integer.            *)
(* An optional value (null / undefined or a value) is <<>> or <<v>>.       *)
(***************************************************************************)
EXTENDS Naturals, Sequences, FiniteSets

----------------------------------------------------------------------------
(* JavaScript numbers and Number.parseInt *)

Digits == {"0", "1", "2", "3", "4", "5", "6", "7", "8", "9"}

DigitVal(c) ==
    CASE c = "0" -> 0 [] c = "1" -> 1 [] c = "2" -> 2 [] c = "3" -> 3
      [] c = "4" -> 4 [] c = "5" -> 5 [] c = "6" -> 6 [] c = "7" -> 7
      [] c = "8" -> 8 [] c = "9" -> 9

NaN == [nan |-> TRUE, neg |-> FALSE, digits |-> <<>>]

RECURSIVE StripLeadingZeros(_)
StripLeadingZeros(d) ==
    IF Len(d) > 1 /\ Head(d) = "0" THEN StripLeadingZeros(Tail(d)) ELSE d

Num(d) == [nan |-> FALSE, neg |-> FALSE, digits |-> StripLeadingZeros(d)]

RECURSIVE TrimLeft(_)
TrimLeft(s) ==
    IF s # <<>> /\ Head(s) = " " THEN TrimLeft(Tail(s)) ELSE s

RECURSIVE DigitPrefix(_)
DigitPrefix(s) ==
    IF s # <<>> /\ Head(s) \in Digits
    THEN <<Head(s)>> \o DigitPrefix(Tail(s))
    ELSE <<>>

(* Number.parseInt(s, 10): leading blanks, an optional sign, then the      *)
(* longest run of decimal digits; whatever follows is ignored.             *)
ParseInt(s) ==
    LET t == TrimLeft(s)
        signed == t # <<>> /\ Head(t) \in {"+", "-"}
        u == IF signed THEN Tail(t) ELSE t
        d == DigitPrefix(u)
    IN  IF d = <<>> THEN NaN
        ELSE [nan |-> FALSE, neg |-> signed /\ Head(t) = "-",
              digits |-> StripLeadingZeros(d)]

IsZero(x) == ~x.nan /\ x.digits = <<"0">>

(* String(x) for an integral number below 1e21 *)
NumToString(x) ==
    IF x.nan THEN <<"N", "a", "N">>
    ELSE IF x.neg /\ ~IsZero(x) THEN <<"-">> \o x.digits
    ELSE x.digits

RECURSIVE LexGT(_, _)
LexGT(a, b) ==
    IF a = <<>> THEN FALSE
    ELSE IF DigitVal(Head(a)) # DigitVal(Head(b))
         THEN DigitVal(Head(a)) > DigitVal(Head(b))
         ELSE LexGT(Tail(a), Tail(b))

MagGT(a, b) ==
    \/ Len(a) > Len(b)
    \/ Len(a) = Len(b) /\ LexGT(a, b)

(* x > y on JavaScript numbers; any comparison with NaN is false *)
NumGT(x, y) ==
    /\ ~x.nan
    /\ ~y.nan
    /\ LET xn == x.neg /\ ~IsZero(x)
           yn == y.neg /\ ~IsZero(y)
       IN  IF xn # yn THEN yn
           ELSE IF xn THEN MagGT(y.digits, x.digits)
           ELSE MagGT(x.digits, y.digits)

NumLT(x, y) == NumGT(y, x)

IsInteger(x) == ~x.nan

Last(s, n) == IF Len(s) <= n THEN s ELSE SubSeq(s, Len(s) - n + 1, Len(s))

----------------------------------------------------------------------------
(* objectPutPart: helpers and constants *)

(* a short padding: the last four characters *)
_getPaddedPartNumberShort(number) ==
    Last(<<"0", "0", "0", "0", "0", "0">> \o NumToString(number), 4)

(* `000000${number}`.substr(-5) *)
_getPaddedPartNumber(number) ==
    Last(<<"0", "0", "0", "0", "0", "0">> \o NumToString(number), 5)

(* `overview${splitter}${objectKey}${splitter}${uploadId}` *)
_getPrefixKey(splitter, objectKey, uploadId) ==
    <<"overview">> \o splitter \o objectKey \o splitter \o uploadId

MaxPartSize == Num(<<"5", "3", "6", "8", "7", "0", "9", "1", "2", "0">>)
MaxPartNumber == Num(<<"1", "0", "0", "0", "0">>)
One == Num(<<"1">>)

mpuBucketPrefix == <<"mpuShadowBucket">>
currentSplitter == <<"..|..">>
oldSplitter == <<"...!*!">>

None == <<>>
Some(v) == <<v>>
Undefined == "undefined"

----------------------------------------------------------------------------
(* The requests the model submits *)

Reqs == {"r1", "r2"}

PartNumberInputs ==
    { <<"1">>, <<"3">>, <<"1", "0", "0", "0", "0">>,
      <<"1", "0", "0", "0", "1">>, <<"0">>, <<"-", "1">>,
      <<"2", ".", "5">>, <<"a", "b", "c">>, <<>> }

SizeInputs ==
    { Num(<<"6">>),
      MaxPartSize,
      Num(<<"5", "3", "6", "8", "7", "0", "9", "1", "2", "1">>),
      Num(<<"1", "0", "0", "0", "0", "0", "0", "0", "0", "0", "0">>) }

BucketNames == { <<"plain">>, <<"enc">>, <<"legacy">>, <<"noshadow">>,
                 <<"missing">> }
ObjectKeys == { <<"k">> }
UploadIds == { <<"u1">>, <<"u2">>, <<"u3">> }
Hashes == {"h1", "h2"}

(* requesters: an account, an IAM user of that account, and two other      *)
(* accounts, one of which holds a write grant on the buckets               *)
AuthInfos ==
    { [canonicalID |-> "alice", iam |-> FALSE, arn |-> "arn:alice:root"],
      [canonicalID |-> "alice", iam |-> TRUE, arn |-> "arn:alice:user/dev"],
      [canonicalID |-> "bob", iam |-> FALSE, arn |-> "arn:bob:root"],
      [canonicalID |-> "mallory", iam |-> FALSE, arn |-> "arn:mallory:root"] }

Requests ==
    [ bucketName : BucketNames,
      objectKey : ObjectKeys,
      uploadId : UploadIds,
      partNumber : PartNumberInputs,
      parsedContentLength : SizeInputs,
      contentMD5 : Hashes \cup {Undefined},
      streaming : BOOLEAN ]

----------------------------------------------------------------------------
(* State *)

VARIABLES
    buckets,    \* metadata store: bucket name -> None or Some(bucket)
    overviews,  \* metadata store: overview records of the shadow buckets
    parts,      \* metadata store: part records of the shadow buckets
    blobs,      \* data backend: the location keys that hold data
    nextLoc,    \* data backend: the next location key it assigns
    pc,         \* per request: the collaborator call the waterfall waits for
    request,    \* per request: the request object
    authInfo,   \* per request: the requester
    local,      \* per request: the closure variables of objectPutPart
    calls,      \* per request: the collaborator calls made, in order
    answers,    \* per request: the stages' answers, in order
    result,     \* per request: what the final callback cb was called with
    filter,     \* per request: the streaming signature filter (V4Transform)
    mdLog,      \* metadata store: the part records written, in order
    pad,        \* the part numbers given to _getPaddedPartNumber, the results
    web,        \* the request at the website endpoint
    routing     \* the arguments given to _findRoutingRule, the result

vars == <<buckets, overviews, parts, blobs, nextLoc, pc, request, authInfo,
          local, calls, answers, result, filter, mdLog, pad, web, routing>>

store == <<buckets, overviews, parts, blobs, nextLoc, mdLog>>

MpuBucketName(bucketName) == mpuBucketPrefix \o bucketName

AllBucketNames == BucketNames \cup { MpuBucketName(b) : b \in BucketNames }

Writers == {"alice", "bob"}

Bucket(sse, version) ==
    Some([writers |-> Writers, sse |-> sse, version |-> version])

SseConfig == [algorithm |-> "AES256", masterKeyId |-> "mk1"]

InitBuckets ==
    [ n \in AllBucketNames |->
        CASE n = <<"plain">> -> Bucket(None, 2)
          [] n = <<"enc">> -> Bucket(Some(SseConfig), 2)
          [] n = <<"legacy">> -> Bucket(None, 1)
          [] n = <<"noshadow">> -> Bucket(None, 2)
          [] n = MpuBucketName(<<"plain">>) -> Bucket(None, 2)
          [] n = MpuBucketName(<<"enc">>) -> Bucket(None, 2)
          [] n = MpuBucketName(<<"legacy">>) -> Bucket(None, 1)
          [] OTHER -> None ]

(* the splitter the upload was initiated with *)
SplitterOf(version) == IF version < 2 THEN oldSplitter ELSE currentSplitter

(* every shadow bucket holds upload u1 of key k, initiated by the account  *)
(* alice, and upload u2, initiated by alice's IAM user; u3 does not exist  *)
InitOverviews ==
    UNION { { [bucket |-> MpuBucketName(b),
               key |-> _getPrefixKey(SplitterOf(buckets[MpuBucketName(b)][1].version),
                                     <<"k">>, <<"u1">>),
               initiatorID |-> "alice"],
              [bucket |-> MpuBucketName(b),
               key |-> _getPrefixKey(SplitterOf(buckets[MpuBucketName(b)][1].version),
                                     <<"k">>, <<"u2">>),
               initiatorID |-> "arn:alice:user/dev"] }
            : b \in { c \in BucketNames : buckets[MpuBucketName(c)] # None } }

NoRequest ==
    [ bucketName |-> <<>>, objectKey |-> <<>>, uploadId |-> <<>>,
      partNumber |-> <<>>, parsedContentLength |-> NaN,
      contentMD5 |-> Undefined, streaming |-> FALSE ]

NoAuthInfo == [canonicalID |-> "", iam |-> FALSE, arn |-> ""]

NoLocal ==
    [ size |-> NaN,             \* const size
      partNumber |-> NaN,       \* const partNumber
      cipherBundle |-> None,    \* let cipherBundle
      splitter |-> currentSplitter,  \* let splitter
      overviewKey |-> <<>>,     \* const mpuOverviewKey
      initiatorID |-> None,     \* const initiatorID
      bodyMD5 |-> Undefined,    \* the MD5 of the bytes the backend stored
      location |-> None,        \* the location data.put returned
      completedHash |-> Undefined,  \* const completedHash
      deleted |-> <<>>,         \* the locations batchDelete was called with
      listeners |-> 0,          \* 'hashed' listeners left on the hash stream
      cbCount |-> 0,            \* how often dataStore's callback was called
      mdParams |-> None,        \* what metadataStorePart was called with
      dataGetInfoArr |-> <<>> ]

InitPutPart ==
    /\ buckets = InitBuckets
    /\ overviews = InitOverviews
    /\ parts = {}
    /\ blobs = {}
    /\ nextLoc = 1
    /\ pc = [r \in Reqs |-> "idle"]
    /\ request = [r \in Reqs |-> NoRequest]
    /\ authInfo = [r \in Reqs |-> NoAuthInfo]
    /\ local = [r \in Reqs |-> NoLocal]
    /\ calls = [r \in Reqs |-> <<>>]
    /\ answers = [r \in Reqs |-> <<>>]
    /\ result = [r \in Reqs |-> <<>>]
    /\ filter = [r \in Reqs |-> "off"]
    /\ mdLog = <<>>

(* no part number was padded yet *)
NoPad == [numbers |-> <<>>, padded |-> <<>>]

(* _findRoutingRule was not called yet *)
NoRouting == [given |-> <<>>, result |-> <<>>]

(* no request has reached the website endpoint yet *)
NoWeb ==
    [ pc |-> "idle",            \* where the request is
      method |-> Undefined,     \* request.method
      bucketName |-> Undefined, \* request.bucketName
      objectKey |-> Undefined,  \* request.objectKey
      encrypted |-> FALSE,      \* request.connection.encrypted
      answer |-> Undefined,     \* what metadata.getBucket answered
      key |-> Undefined,        \* websiteGet's objectKey
      keyRoutingRule |-> None,  \* websiteGet's keyRoutingRule
      api |-> <<>>,             \* the API methods called, in order
      consulted |-> FALSE,      \* bucket.getWebsiteConfiguration() was called
      callbacks |-> <<>>,       \* what the route's callback was called with
      response |-> <<>> ]       \* what was written to the response

Init ==
    /\ InitPutPart
    /\ pad = NoPad
    /\ web = NoWeb
    /\ routing = NoRouting

----------------------------------------------------------------------------
(* The padding of part numbers on its own: the part numbers the validation *)
(* lets through, in pairs, and what _getPaddedPartNumber makes of them     *)

PartNumberLimit == 10000

DigitChar(v) == CHOOSE c \in Digits : DigitVal(c) = v

(* the number n as the model writes JavaScript numbers *)
RECURSIVE NatDigits(_)
NatDigits(n) ==
    IF n < 10 THEN <<DigitChar(n)>>
    ELSE NatDigits(n \div 10) \o <<DigitChar(n % 10)>>

PadSamples == {1, 2, 9, 10, 11, 99, 100, 101, 999, 1000, 1001, 9999, 10000}

InitPad ==
    /\ InitPutPart
    /\ web = NoWeb
    /\ routing = NoRouting
    /\ \E p1 \in 1..PartNumberLimit, p2 \in PadSamples :
           pad = [numbers |-> <<p1, p2>>, padded |-> <<>>]

ApplyPad ==
    /\ pad.numbers # <<>>
    /\ pad.padded = <<>>
    /\ pad' = [pad EXCEPT !.padded =
                  [i \in 1..2 |->
                      _getPaddedPartNumber(Num(NatDigits(pad.numbers[i])))]]
    /\ UNCHANGED <<store, pc, request, authInfo, local, calls, answers,
                   result, filter, web, routing>>

NextPad == ApplyPad

SpecPad == InitPad /\ [][NextPad]_vars

----------------------------------------------------------------------------
(* Collaborators: what a call can answer in the current state *)

Answer(err, value) == [err |-> err, value |-> value]

(* metadata.getBucket(name, log, cb) *)
GetBucketAnswers(name) ==
    {Answer(Some("InternalError"), None)}
    \cup (IF buckets[name] = None
          THEN {Answer(Some("NoSuchBucket"), None)}
          ELSE {Answer(None, buckets[name])})

(* metadata.getObjectMD(bucketName, key, log, cb) *)
GetObjectMDAnswers(bucketName, key) ==
    LET found == { o \in overviews : o.bucket = bucketName /\ o.key = key }
    IN  {Answer(Some("InternalError"), None)}
        \cup (IF found = {}
              THEN {Answer(Some("NoSuchKey"), None)}
              ELSE { Answer(None, Some([initiator |-> [ID |-> o.initiatorID]]))
                     : o \in found })

(* isBucketAuthorized(bucket, requestType, canonicalID) *)
isBucketAuthorized(bucket, requestType, canonicalID) ==
    requestType = "objectPut" /\ canonicalID \in bucket.writers

(* kms.createCipherBundle(encryption, log, cb) *)
CipherBundleAnswers(encryption) ==
    {Answer(Some("InternalError"), None)}
    \cup { Answer(None, Some([algorithm |-> encryption.algorithm,
                              masterKeyId |-> encryption.masterKeyId,
                              cryptoScheme |-> "1",
                              cipheredDataKey |-> k])) : k \in {"dk1", "dk2"} }

(* data.put(cipherBundle, stream, size, keyContext, log, cb): an error, a  *)
(* success without a location, or a location and the hash stream, whose    *)
(* completedHash is set only once the stream was read to its end. A        *)
(* filter that failed never ends its output, so the hash is not ready.     *)
DataPutAnswers(filterState) ==
    {[err |-> Some("InternalError"), stored |-> FALSE, bodyMD5 |-> Undefined,
      ready |-> FALSE]}
    \cup {[err |-> None, stored |-> FALSE, bodyMD5 |-> Undefined,
           ready |-> FALSE]}
    \cup { [err |-> None, stored |-> TRUE, bodyMD5 |-> h, ready |-> rdy]
           : h \in Hashes,
             rdy \in (IF filterState = "failed" THEN {FALSE} ELSE BOOLEAN) }

(* services.metadataStorePart(mpuBucketName, locations, params, log, cb) *)
PartKey(mdParams) == mdParams.uploadId \o mdParams.splitter \o mdParams.partNumber

PartRecord(mpuBucketName, dataGetInfoArr, mdParams) ==
    [ bucket |-> mpuBucketName,
      key |-> PartKey(mdParams),
      value |-> [ partNumber |-> mdParams.partNumber,
                  contentMD5 |-> mdParams.contentMD5,
                  size |-> mdParams.size,
                  uploadId |-> mdParams.uploadId,
                  splitter |-> mdParams.splitter,
                  dataLocation |-> dataGetInfoArr ] ]

PutObjectMD(set, rec) ==
    { o \in set : ~(o.bucket = rec.bucket /\ o.key = rec.key) } \cup {rec}

----------------------------------------------------------------------------
(* objectPutPart *)

Outcome(err, hexDigest) == [err |-> err, hexDigest |-> hexDigest]

(* cb(err) before the waterfall *)
Reject(r, err) ==
    /\ result' = [result EXCEPT ![r] = Append(@, Outcome(Some(err), Undefined))]
    /\ pc' = [pc EXCEPT ![r] = "end"]

(* the final callback of the waterfall, which async calls at most once *)
Final(r, err, hexDigest) ==
    result' = [result EXCEPT ![r] =
                  IF @ = <<>> THEN <<Outcome(err, hexDigest)>> ELSE @]

(* what a collaborator answered (raw), what the stage then passed to the   *)
(* waterfall (err), and the number of calls the request had made by then   *)
Log(r, op, raw, err, ncalls) ==
    answers' = [answers EXCEPT ![r] =
                   Append(@, [op |-> op, raw |-> raw, err |-> err,
                              ncalls |-> ncalls])]

Call(r, op, nextPc) ==
    /\ calls' = [calls EXCEPT ![r] = Append(@, op)]
    /\ pc' = [pc EXCEPT ![r] = nextPc]

(* a size check that also turns away a part of exactly the largest size *)
ValidateSizeInclusive(req) ==
    LET size == req.parsedContentLength
        partNumber == ParseInt(req.partNumber)
    IN  IF ~NumLT(ParseInt(NumToString(size)), MaxPartSize)
        THEN Some("EntityTooLarge")
        ELSE IF NumGT(partNumber, MaxPartNumber)
        THEN Some("TooManyParts")
        ELSE IF ~IsInteger(partNumber) \/ NumLT(partNumber, One)
        THEN Some("InvalidArgument")
        ELSE None

(* lines 41-58: the pre-flight validation *)
Validate(req) ==
    LET size == req.parsedContentLength
        partNumber == ParseInt(req.partNumber)
    IN  IF NumGT(ParseInt(NumToString(size)), MaxPartSize)
        THEN Some("EntityTooLarge")
        ELSE IF NumGT(partNumber, MaxPartNumber)
        THEN Some("TooManyParts")
        ELSE IF ~IsInteger(partNumber) \/ NumLT(partNumber, One)
        THEN Some("InvalidArgument")
        ELSE None

(* objectPutPart(authInfo, request, log, cb) up to its first call *)
Begin(r, req, auth) ==
    /\ request' = [request EXCEPT ![r] = req]
    /\ authInfo' = [authInfo EXCEPT ![r] = auth]
    /\ IF Validate(req) # None
       THEN /\ Reject(r, Validate(req)[1])
            /\ UNCHANGED <<local, calls>>
       ELSE /\ local' = [local EXCEPT ![r] =
                   [@ EXCEPT !.size = req.parsedContentLength,
                             !.partNumber = ParseInt(req.partNumber)]]
            /\ Call(r, "metadata.getBucket", "getBucket")
            /\ UNCHANGED result
    /\ UNCHANGED <<store, filter, answers, pad, web, routing>>

(* one request at a time *)
Start(r) ==
    /\ pc[r] = "idle"
    /\ \A q \in Reqs \ {r} : pc[q] = "idle"
    /\ \E req \in Requests, auth \in AuthInfos : Begin(r, req, auth)

(* lines 76-116: the destination bucket answers; authorization; the        *)
(* bucket's encryption                                                     *)
DestinationBucketError(err) ==
    IF err = Some("NoSuchBucket") THEN Some("NoSuchUpload") ELSE err

GetBucketReturn(r) ==
    /\ pc[r] = "getBucket"
    /\ \E a \in GetBucketAnswers(request[r].bucketName) :
        IF a.err # None
        THEN /\ Final(r, DestinationBucketError(a.err), Undefined)
             /\ Log(r, "getBucket", a.err, DestinationBucketError(a.err),
                    Len(calls[r]))
             /\ pc' = [pc EXCEPT ![r] = "end"]
             /\ UNCHANGED calls
        ELSE LET bucket == a.value[1] IN
             IF ~isBucketAuthorized(bucket, "objectPut", authInfo[r].canonicalID)
             THEN /\ Final(r, Some("AccessDenied"), Undefined)
                  /\ Log(r, "getBucket", None, Some("AccessDenied"),
                         Len(calls[r]))
                  /\ pc' = [pc EXCEPT ![r] = "end"]
                  /\ UNCHANGED calls
             ELSE /\ Log(r, "getBucket", None, None, Len(calls[r]))
                  /\ UNCHANGED result
                  /\ IF bucket.sse # None
                     THEN Call(r, "kms.createCipherBundle", "kms")
                     ELSE Call(r, "metadata.getBucket", "getMpuBucket")
    /\ UNCHANGED <<store, request, authInfo, local, filter, pad, web, routing>>

(* a key-management stage that goes on whatever kms answered *)
CipherBundleReturnIgnoresError(r) ==
    /\ pc[r] = "kms"
    /\ \E a \in CipherBundleAnswers(buckets[request[r].bucketName][1].sse[1]) :
        /\ local' = [local EXCEPT ![r].cipherBundle = a.value]
        /\ Log(r, "kms", a.err, None, Len(calls[r]))
        /\ Call(r, "metadata.getBucket", "getMpuBucket")
        /\ UNCHANGED result
    /\ UNCHANGED <<store, request, authInfo, filter, pad, web, routing>>

(* lines 104-113 *)
CipherBundleReturn(r) ==
    /\ pc[r] = "kms"
    /\ \E a \in CipherBundleAnswers(buckets[request[r].bucketName][1].sse[1]) :
        /\ local' = [local EXCEPT ![r].cipherBundle = a.value]
        /\ Log(r, "kms", a.err, a.err, Len(calls[r]))
        /\ IF a.err # None
           THEN /\ Final(r, a.err, Undefined)
                /\ pc' = [pc EXCEPT ![r] = "end"]
                /\ UNCHANGED calls
           ELSE /\ Call(r, "metadata.getBucket", "getMpuBucket")
                /\ UNCHANGED result
    /\ UNCHANGED <<store, request, authInfo, filter, pad, web, routing>>

(* lines 118-138: the shadow bucket answers; the splitter; the overview    *)
(* key                                                                     *)
(* a shadow-bucket stage that passes the store's error on as it is *)
ShadowBucketErrorUnmapped(err) == err

ShadowBucketError(err) ==
    IF err = Some("NoSuchBucket") THEN Some("NoSuchUpload") ELSE err

(* a splitter that is never the legacy one *)
ChooseSplitterNeverLegacy(version, splitter) == splitter

ChooseSplitter(version, splitter) ==
    IF version < 2 THEN oldSplitter ELSE splitter

GetMpuBucketReturn(r) ==
    /\ pc[r] = "getMpuBucket"
    /\ \E a \in GetBucketAnswers(MpuBucketName(request[r].bucketName)) :
        IF a.err # None
        THEN /\ Final(r, ShadowBucketError(a.err), Undefined)
             /\ Log(r, "getMpuBucket", a.err, ShadowBucketError(a.err),
                    Len(calls[r]))
             /\ pc' = [pc EXCEPT ![r] = "end"]
             /\ UNCHANGED <<calls, local>>
        ELSE LET splitter == ChooseSplitter(a.value[1].version, local[r].splitter)
                 mpuOverviewKey == _getPrefixKey(splitter, request[r].objectKey,
                                                 request[r].uploadId)
             IN  /\ local' = [local EXCEPT ![r] =
                        [@ EXCEPT !.splitter = splitter,
                                  !.overviewKey = mpuOverviewKey]]
                 /\ Log(r, "getMpuBucket", None, None, Len(calls[r]))
                 /\ Call(r, "metadata.getObjectMD", "getObjectMD")
                 /\ UNCHANGED result
    /\ UNCHANGED <<store, request, authInfo, filter, pad, web, routing>>

(* dataStore, lines 42-43: prepareStream and the call of data.put *)
prepareStream(stream) == IF stream.streaming THEN "armed" ELSE "off"

(* lines 139-167: the overview record answers; the initiator check; the    *)
(* call of services.dataStore                                              *)
(* an initiator check that knows the requester by the canonical id only *)
RequesterIDCanonicalOnly(auth) == auth.canonicalID

RequesterID(auth) == IF auth.iam THEN auth.arn ELSE auth.canonicalID

GetObjectMDReturn(r) ==
    /\ pc[r] = "getObjectMD"
    /\ \E a \in GetObjectMDAnswers(MpuBucketName(request[r].bucketName),
                                   local[r].overviewKey) :
        IF a.err # None
        THEN /\ Final(r, a.err, Undefined)
             /\ Log(r, "getObjectMD", a.err, a.err, Len(calls[r]))
             /\ pc' = [pc EXCEPT ![r] = "end"]
             /\ UNCHANGED <<calls, filter, local>>
        ELSE LET initiatorID == a.value[1].initiator.ID
                 requesterID == RequesterID(authInfo[r])
             IN  /\ local' = [local EXCEPT ![r].initiatorID = Some(initiatorID)]
                 /\ IF initiatorID # requesterID
                    THEN /\ Final(r, Some("AccessDenied"), Undefined)
                         /\ Log(r, "getObjectMD", None, Some("AccessDenied"),
                                Len(calls[r]))
                         /\ pc' = [pc EXCEPT ![r] = "end"]
                         /\ UNCHANGED <<calls, filter>>
                    ELSE /\ Log(r, "getObjectMD", None, None, Len(calls[r]))
                         /\ filter' = [filter EXCEPT ![r] =
                                          prepareStream(request[r])]
                         /\ Call(r, "data.put", "dataPut")
                         /\ UNCHANGED result
    /\ UNCHANGED <<store, request, authInfo, pad, web, routing>>

(* a callback of data.put that does not look whether a location came back *)
dataStoreCallbackUnchecked(contentMD5, err, dataRetrievalInfo, completedHash) ==
    IF err # None
    THEN [err |-> err, info |-> None, hash |-> Undefined,
          deleted |-> <<>>, listeners |-> 0]
    ELSE IF /\ dataRetrievalInfo # None
            /\ contentMD5 # Undefined
            /\ completedHash # Undefined
            /\ contentMD5 # completedHash
    THEN [err |-> Some("BadDigest"), info |-> None, hash |-> Undefined,
          deleted |-> <<dataRetrievalInfo[1]>>, listeners |-> 1]
    ELSE [err |-> None, info |-> dataRetrievalInfo, hash |-> completedHash,
          deleted |-> <<>>,
          listeners |-> IF completedHash # Undefined THEN 0 ELSE 1]

(* services.dataStore(objectMetadata, ...) is the data writer dataStore     *)
(* with the object metadata (null here) handed through in front.           *)
(* dataStore, lines 44-82: the callback of data.put. The result is what    *)
(* dataStore's callback is called with, the locations batchDelete was      *)
(* called with and the listeners left on the hash stream.                  *)
dataStoreCallback(contentMD5, err, dataRetrievalInfo, completedHash) ==
    IF err # None
    THEN [err |-> err, info |-> None, hash |-> Undefined,
          deleted |-> <<>>, listeners |-> 0]
    ELSE IF dataRetrievalInfo = None
    THEN [err |-> Some("InternalError"), info |-> None, hash |-> Undefined,
          deleted |-> <<>>, listeners |-> 0]
    ELSE IF /\ contentMD5 # Undefined
            /\ completedHash # Undefined
            /\ contentMD5 # completedHash
    THEN [err |-> Some("BadDigest"), info |-> None, hash |-> Undefined,
          deleted |-> <<dataRetrievalInfo[1]>>, listeners |-> 1]
    ELSE [err |-> None, info |-> dataRetrievalInfo, hash |-> completedHash,
          deleted |-> <<>>,
          listeners |-> IF completedHash # Undefined THEN 0 ELSE 1]

(* the dataGetInfo the data stage handed on; an undefined one has no key *)
LocationOf(dataGetInfo) ==
    IF dataGetInfo = None THEN [key |-> 0, sse |-> None] ELSE dataGetInfo[1]

(* lines 169-187: the location array and the parameters of the part record *)
(* a location array that leaves the cipher bundle out *)
DataGetInfoArrPlain(dataGetInfo, cipherBundle) == <<dataGetInfo>>

DataGetInfoArr(dataGetInfo, cipherBundle) ==
    IF cipherBundle # None
    THEN <<[dataGetInfo EXCEPT !.sse =
               Some([sseAlgorithm |-> cipherBundle[1].algorithm,
                     sseMasterKeyId |-> cipherBundle[1].masterKeyId,
                     sseCryptoScheme |-> cipherBundle[1].cryptoScheme,
                     sseCipheredDataKey |-> cipherBundle[1].cipheredDataKey])]>>
    ELSE <<dataGetInfo>>

(* part parameters whose part number also carries the content hash *)
MdParamsPerDigest(partNumber, hexDigest, size, uploadId, splitter) ==
    [ partNumber |-> _getPaddedPartNumber(partNumber) \o <<hexDigest>>,
      contentMD5 |-> hexDigest,
      size |-> size,
      uploadId |-> uploadId,
      splitter |-> splitter ]

(* part parameters with a splitter that all requests share: once a request *)
(* has chosen the legacy splitter, every request persists it               *)
MdParamsSharedSplitter(partNumber, hexDigest, size, uploadId, splitter) ==
    [ partNumber |-> _getPaddedPartNumber(partNumber),
      contentMD5 |-> hexDigest,
      size |-> size,
      uploadId |-> uploadId,
      splitter |-> IF \E q \in Reqs : local[q].splitter = oldSplitter
                   THEN oldSplitter ELSE splitter ]

MdParams(partNumber, hexDigest, size, uploadId, splitter) ==
    [ partNumber |-> _getPaddedPartNumber(partNumber),
      contentMD5 |-> hexDigest,
      size |-> size,
      uploadId |-> uploadId,
      splitter |-> splitter ]

(* The waterfall's continuation of the data stage, which is dataStore's    *)
(* callback (lines 165-166), called with (err, dataGetInfo, hexDigest): an *)
(* error goes to the final callback, a success runs the metadata stage.    *)
(* l is the request's closure after the caller's own assignments and       *)
(* endPc the position when no metadata stage is started.                   *)
DataStageNext(r, l, op, raw, err, dataGetInfo, hexDigest, madeCalls, endPc) ==
    /\ Log(r, op, raw, err, Len(calls[r]) + Len(madeCalls))
    /\ IF err # None
       THEN /\ Final(r, err, Undefined)
            /\ pc' = [pc EXCEPT ![r] = endPc]
            /\ calls' = [calls EXCEPT ![r] = @ \o madeCalls]
            /\ local' = [local EXCEPT ![r] = l]
       ELSE /\ local' = [local EXCEPT ![r] =
                   [l EXCEPT !.dataGetInfoArr =
                                 DataGetInfoArr(LocationOf(dataGetInfo),
                                                l.cipherBundle),
                             !.mdParams =
                                 Some(MdParams(l.partNumber, hexDigest, l.size,
                                               request[r].uploadId, l.splitter))]]
            /\ calls' = [calls EXCEPT ![r] =
                            (@ \o madeCalls) \o <<"services.metadataStorePart">>]
            /\ pc' = [pc EXCEPT ![r] = "storePart"]
            /\ UNCHANGED result

(* A second call of the same continuation: async 1.x runs it like the      *)
(* first, async 2.x throws 'Callback was already called' out of the        *)
(* caller, which nothing catches.                                          *)
DataStageThrow(r, l, op, raw, err, madeCalls) ==
    /\ local[r].cbCount > 0
    /\ Log(r, op, raw, err, Len(calls[r]) + Len(madeCalls))
    /\ pc' = [pc EXCEPT ![r] = "crashed"]
    /\ calls' = [calls EXCEPT ![r] = @ \o madeCalls]
    /\ local' = [local EXCEPT ![r] = l]
    /\ UNCHANGED result

DataPutReturn(r) ==
    /\ pc[r] = "dataPut"
    /\ \E a \in DataPutAnswers(filter[r]) :
        LET info == IF a.stored THEN Some([key |-> nextLoc, sse |-> None])
                    ELSE None
            completedHash == IF a.ready THEN a.bodyMD5 ELSE Undefined
            d == dataStoreCallback(request[r].contentMD5, a.err, info,
                                   completedHash)
            madeCalls == [i \in 1..Len(d.deleted) |-> "data.batchDelete"]
            l == [local[r] EXCEPT !.bodyMD5 = a.bodyMD5,
                                  !.location = info,
                                  !.completedHash = completedHash,
                                  !.deleted = @ \o d.deleted,
                                  !.listeners = d.listeners,
                                  !.cbCount = @ + 1]
        IN  /\ blobs' = (blobs \cup (IF a.stored THEN {nextLoc} ELSE {}))
                            \ { d.deleted[i].key : i \in 1..Len(d.deleted) }
            /\ nextLoc' = IF a.stored THEN nextLoc + 1 ELSE nextLoc
            /\ filter' = [filter EXCEPT ![r] =
                             IF a.ready /\ @ = "armed" THEN "ended" ELSE @]
            /\ \/ DataStageNext(r, l, "dataPut", a.err, d.err, d.info, d.hash,
                                 madeCalls, "end")
               \/ DataStageThrow(r, l, "dataPut", a.err, d.err, madeCalls)
    /\ UNCHANGED <<buckets, overviews, parts, mdLog, request, authInfo, pad, web, routing>>

(* prepareStream, line 18: the filter was given dataStore's callback and   *)
(* calls it with an error when a chunk's signature does not verify         *)
V4TransformError(r) ==
    /\ filter[r] = "armed"
    /\ pc[r] \in {"dataPut", "storePart", "end"}
    /\ filter' = [filter EXCEPT ![r] = "failed"]
    /\ LET l == [local[r] EXCEPT !.cbCount = @ + 1]
           err == Some("SignatureDoesNotMatch")
       IN  \/ DataStageNext(r, l, "v4Transform", err, err, None, Undefined,
                            <<>>, pc[r])
           \/ DataStageThrow(r, l, "v4Transform", err, err, <<>>)
    /\ UNCHANGED <<store, request, authInfo, pad, web, routing>>

(* a metadata stage that writes again when the write failed *)
StorePartReturnRetries(r) ==
    /\ pc[r] = "storePart"
    /\ \/ /\ parts' = PutObjectMD(parts,
                         PartRecord(MpuBucketName(request[r].bucketName),
                                    local[r].dataGetInfoArr,
                                    local[r].mdParams[1]))
          /\ mdLog' = Append(mdLog,
                         [by |-> r,
                          rec |-> PartRecord(MpuBucketName(request[r].bucketName),
                                             local[r].dataGetInfoArr,
                                             local[r].mdParams[1])])
          /\ Final(r, None, local[r].mdParams[1].contentMD5)
          /\ Log(r, "storePart", None, None, Len(calls[r]))
          /\ pc' = [pc EXCEPT ![r] = "end"]
          /\ UNCHANGED calls
       \/ /\ Len(calls[r]) < 8
          /\ Log(r, "storePart", Some("InternalError"),
                 Some("InternalError"), Len(calls[r]))
          /\ calls' = [calls EXCEPT ![r] =
                          Append(@, "services.metadataStorePart")]
          /\ UNCHANGED <<parts, mdLog, pc, result>>
    /\ UNCHANGED <<buckets, overviews, blobs, nextLoc, request, authInfo,
                   local, filter, pad, web, routing>>

(* lines 188-200: metadataStorePart answers *)
StorePartReturn(r) ==
    /\ pc[r] = "storePart"
    /\ pc' = [pc EXCEPT ![r] = "end"]
    /\ \/ /\ parts' = PutObjectMD(parts,
                         PartRecord(MpuBucketName(request[r].bucketName),
                                    local[r].dataGetInfoArr,
                                    local[r].mdParams[1]))
          /\ mdLog' = Append(mdLog,
                         [by |-> r,
                          rec |-> PartRecord(MpuBucketName(request[r].bucketName),
                                             local[r].dataGetInfoArr,
                                             local[r].mdParams[1])])
          /\ Final(r, None, local[r].mdParams[1].contentMD5)
          /\ Log(r, "storePart", None, None, Len(calls[r]))
       \/ /\ Final(r, Some("InternalError"), Undefined)
          /\ Log(r, "storePart", Some("InternalError"),
                 Some("InternalError"), Len(calls[r]))
          /\ UNCHANGED <<parts, mdLog>>
    /\ UNCHANGED <<buckets, overviews, blobs, nextLoc, request, authInfo,
                   local, calls, filter, pad, web, routing>>

Next ==
    \E r \in Reqs :
        \/ Start(r)
        \/ GetBucketReturn(r)
        \/ CipherBundleReturn(r)
        \/ GetMpuBucketReturn(r)
        \/ GetObjectMDReturn(r)
        \/ V4TransformError(r)
        \/ DataPutReturn(r)
        \/ StorePartReturn(r)

(* Requests that run at the same time: the same part of the same upload,  *)
(* sent to an encrypted bucket and to a bucket of the legacy schema        *)
ConcRequests ==
    [ bucketName : { <<"enc">>, <<"legacy">> },
      objectKey : ObjectKeys,
      uploadId : { <<"u1">> },
      partNumber : { <<"1">> },
      parsedContentLength : { Num(<<"6">>) },
      contentMD5 : { "h1", Undefined },
      streaming : BOOLEAN ]

ConcAuthInfos == { a \in AuthInfos : a.canonicalID = "alice" /\ ~a.iam }

StartConc(r) ==
    /\ pc[r] = "idle"
    /\ \E req \in ConcRequests, auth \in ConcAuthInfos : Begin(r, req, auth)

NextConc ==
    \E r \in Reqs :
        \/ StartConc(r)
        \/ GetBucketReturn(r)
        \/ CipherBundleReturn(r)
        \/ GetMpuBucketReturn(r)
        \/ GetObjectMDReturn(r)
        \/ V4TransformError(r)
        \/ DataPutReturn(r)
        \/ StorePartReturn(r)

SpecConc == Init /\ [][NextConc]_vars

Spec == Init /\ [][Next]_vars

----------------------------------------------------------------------------
(* The website endpoint: routerWebsite and websiteGet *)

WebMethods == {"GET", "HEAD", "PUT", "POST", "DELETE"}

WebBucketNames ==
    {"nobucket", "transient", "deleted", "noconf", "redirall", "redirhttps",
     "site"}

WebObjectKeys == { Undefined, <<"d", "/">>, <<"d", "/", "k">> }

WebRequests ==
    [ method : WebMethods,
      bucketName : WebBucketNames,
      objectKey : WebObjectKeys,
      encrypted : BOOLEAN ]

IndexDocument == <<"i", "x">>

SiteRoutingRules ==
    Some(<< [ condition |-> [ keyPrefixEquals |-> Some(<<"d">>),
                              httpErrorCodeReturnedEquals |-> None ],
              redirect |-> [hostName |-> "a"] ] >>)

WebsiteConfig(redirectAllRequestsTo) ==
    [ redirectAllRequestsTo |-> redirectAllRequestsTo,
      indexDocument |-> IndexDocument,
      routingRules |-> SiteRoutingRules ]

WebBucket(transient, deleted, website) ==
    [ transient |-> transient, deleted |-> deleted, website |-> website ]

(* the buckets the metadata store holds for the website endpoint *)
WebBuckets(name) ==
    CASE name = "nobucket" -> None
      [] name = "transient" ->
             Some(WebBucket(TRUE, FALSE, Some(WebsiteConfig(None))))
      [] name = "deleted" ->
             Some(WebBucket(FALSE, TRUE, Some(WebsiteConfig(None))))
      [] name = "noconf" -> Some(WebBucket(FALSE, FALSE, None))
      [] name = "redirall" ->
             Some(WebBucket(FALSE, FALSE,
                 Some(WebsiteConfig(Some([hostName |-> "example.com",
                                          protocol |-> Undefined])))))
      [] name = "redirhttps" ->
             Some(WebBucket(FALSE, FALSE,
                 Some(WebsiteConfig(Some([hostName |-> "example.com",
                                          protocol |-> "https"])))))
      [] name = "site" ->
             Some(WebBucket(FALSE, FALSE, Some(WebsiteConfig(None))))

WebGetBucketAnswers(name) ==
    {Answer(Some("InternalError"), None)}
    \cup (IF WebBuckets(name) = None
          THEN {Answer(Some("NoSuchBucket"), None)}
          ELSE {Answer(None, WebBuckets(name))})

(* bucketShield(bucket, requestType) *)
bucketShield(bucket, requestType) ==
    requestType = "objectGet" /\ (bucket.transient \/ bucket.deleted)

(* the HTTP status of an error *)
ErrorCode(err) ==
    CASE err = "MethodNotAllowed" -> 405
      [] err = "NoSuchBucket" -> 404
      [] err = "NoSuchWebsiteConfiguration" -> 404
      [] OTHER -> 500

(* what is written to the response *)
Written(kind, err, status, location) ==
    [ kind |-> kind, err |-> err, status |-> status, location |-> location ]

(* routerWebsite, lines 16-39: the callback given to getWebsite *)
GetWebsiteCallback(err, userErrorPageFailure, dataGetInfo, resMetaHeaders) ==
    IF err # None /\ dataGetInfo # None
    THEN Written("userErrorPage", err, ErrorCode(err[1]), Undefined)
    ELSE IF err # None
    THEN Written("errorHtml", err, ErrorCode(err[1]), Undefined)
    ELSE Written("streamData", None, 200, Undefined)

(* routerWebsite, lines 45-50: the callback given to headWebsite *)
HeadWebsiteCallback(err, resHeaders) ==
    IF err # None
    THEN Written("contentHeaders", err, ErrorCode(err[1]), Undefined)
    ELSE Written("contentHeaders", None, 200, Undefined)

(* routesUtils.responseXMLBody(errCode, xml, response, log): without a     *)
(* response object there is nothing it can write to                        *)
responseXMLBody(errCode, response) ==
    IF response = None THEN <<>>
    ELSE <<Written("errorXml", Some(errCode), ErrorCode(errCode), Undefined)>>

(* websiteGet, lines 146-152: the index document *)
EndsWithSlash(key) == key # <<>> /\ key[Len(key)] = "/"

IndexKey(objectKey, websiteConfig) ==
    IF objectKey = Undefined THEN websiteConfig.indexDocument
    ELSE IF EndsWithSlash(objectKey)
    THEN objectKey \o websiteConfig.indexDocument
    ELSE objectKey

putPartVars == <<store, pc, request, authInfo, local, calls, answers, result,
                 filter>>

(* _findRoutingRule: the routing rules of a website configuration. A rule  *)
(* is [condition, redirect]; a condition that is not set is None.          *)

StartsWith(key, prefix) ==
    Len(prefix) <= Len(key) /\ SubSeq(key, 1, Len(prefix)) = prefix

(* Object.assign({ prefixFromRule }, redirect) and Object.assign({},       *)
(* redirect): prefixFromRule is None when the object has no such key       *)
RedirectInfo(prefixFromRule, redirect) ==
    [ prefixFromRule |-> prefixFromRule, redirect |-> redirect ]

(* the loop of _findRoutingRule from rule i on *)
RECURSIVE FindRoutingRuleFrom(_, _, _, _)
FindRoutingRuleFrom(routingRules, i, key, errCode) ==
    IF i > Len(routingRules) THEN None
    ELSE LET prefixFromRule == routingRules[i].condition.keyPrefixEquals
             errorCodeFromRule ==
                 routingRules[i].condition.httpErrorCodeReturnedEquals
             redirect == routingRules[i].redirect
         IN  IF prefixFromRule # None
             THEN IF ~StartsWith(key, prefixFromRule[1])
                  THEN FindRoutingRuleFrom(routingRules, i + 1, key, errCode)
                  ELSE IF errorCodeFromRule # None
                  THEN IF errCode = errorCodeFromRule
                       THEN Some(RedirectInfo(prefixFromRule, redirect))
                       ELSE FindRoutingRuleFrom(routingRules, i + 1, key,
                                                errCode)
                  ELSE Some(RedirectInfo(prefixFromRule, redirect))
             ELSE IF errorCodeFromRule # None
             THEN IF errCode = errorCodeFromRule
                  THEN Some(RedirectInfo(None, redirect))
                  ELSE FindRoutingRuleFrom(routingRules, i + 1, key, errCode)
             ELSE None

(* _findRoutingRule(routingRules, key, errCode): routingRules is None when *)
(* undefined; the result is None when undefined                            *)
_findRoutingRule(routingRules, key, errCode) ==
    IF routingRules = None \/ Len(routingRules[1]) = 0 THEN None
    ELSE FindRoutingRuleFrom(routingRules[1], 1, key, errCode)

(* The rule lists, keys and error codes _findRoutingRule is applied to *)
MaxRules == 2

RuleConditions ==
    [ keyPrefixEquals : { None, Some(<<"d">>), Some(<<"x">>) },
      httpErrorCodeReturnedEquals : { None, Some(404), Some(403) } ]

RuleRedirects == { [hostName |-> "a"], [hostName |-> "b"] }

RoutingRule == [ condition : RuleConditions, redirect : RuleRedirects ]

RoutingRuleLists ==
    {None} \cup { Some(l) : l \in UNION { [1..n -> RoutingRule]
                                          : n \in 0..MaxRules } }

RoutingKeys == { <<"d", "/", "k">>, <<"x">> }

RoutingErrCodes == { None, Some(404) }

InitRules ==
    /\ InitPutPart
    /\ pad = NoPad
    /\ web = NoWeb
    /\ \E rules \in RoutingRuleLists, key \in RoutingKeys,
          errCode \in RoutingErrCodes :
           routing = [given |-> <<rules, key, errCode>>, result |-> <<>>]

ApplyRules ==
    /\ routing.given # <<>>
    /\ routing.result = <<>>
    /\ routing' = [routing EXCEPT !.result =
                      <<_findRoutingRule(routing.given[1], routing.given[2],
                                         routing.given[3])>>]
    /\ UNCHANGED <<putPartVars, pad, web>>

NextRules == ApplyRules

SpecRules == InitRules /\ [][NextRules]_vars

(* what websiteGet does when metadata.getBucket has answered: the calls of *)
(* the route's callback, whether the website configuration was read, what  *)
(* it wrote to the response itself, its objectKey, and where it stands     *)
WebsiteGetOutcome(callbacks, consulted, written, key, at) ==
    [ callbacks |-> callbacks, consulted |-> consulted, written |-> written,
      key |-> key, keyRoutingRule |-> None, pc |-> at ]

CallbackArgs(err) ==
    [ err |-> err, userErrorPageFailure |-> Undefined, dataGetInfo |-> None,
      resMetaHeaders |-> None ]

(* websiteGet, lines 119-186: a bucket that is visible *)
websiteGetVisible(req, bucket) ==
    IF bucket.website = None
    THEN WebsiteGetOutcome(
             <<CallbackArgs(Some("NoSuchWebsiteConfiguration"))>>,
             TRUE, <<>>, req.objectKey, "done")
    ELSE LET websiteConfig == bucket.website[1] IN
         IF websiteConfig.redirectAllRequestsTo # None
         THEN LET hostName == websiteConfig.redirectAllRequestsTo[1].hostName
                  given == websiteConfig.redirectAllRequestsTo[1].protocol
                  protocol == IF given = Undefined
                              THEN (IF req.encrypted THEN "https" ELSE "http")
                              ELSE given
              IN  WebsiteGetOutcome(<<>>, TRUE,
                      <<Written("redirect", None, 302,
                                <<protocol, "://", hostName>>)>>,
                      req.objectKey, "done")
         ELSE LET objectKey == IndexKey(req.objectKey, websiteConfig)
                  routingRules == websiteConfig.routingRules
                  keyRoutingRule == _findRoutingRule(routingRules, objectKey,
                                                     None)
              IN  [WebsiteGetOutcome(<<>>, TRUE, <<>>, objectKey, "hung")
                      EXCEPT !.keyRoutingRule = keyRoutingRule]

(* a websiteGet that does not shield transient and deleted buckets *)
websiteGetCallbackNoShield(req, err, bucket) ==
    IF err # None
    THEN WebsiteGetOutcome(<<CallbackArgs(err)>>, FALSE, <<>>, req.objectKey,
                           "done")
    ELSE websiteGetVisible(req, bucket[1])

(* websiteGet, lines 108-186: the callback of metadata.getBucket *)
websiteGetCallback(req, err, bucket) ==
    IF err # None
    THEN WebsiteGetOutcome(<<CallbackArgs(err)>>, FALSE, <<>>, req.objectKey,
                           "done")
    ELSE IF bucketShield(bucket[1], "objectGet")
    THEN WebsiteGetOutcome(<<CallbackArgs(Some("NoSuchBucket"))>>, FALSE, <<>>,
                           req.objectKey, "done")
    ELSE websiteGetVisible(req, bucket[1])

(* routerWebsite(request, response, log, utapi, statsClient) *)
RouterWebsite ==
    /\ web.pc = "idle"
    /\ \E req \in WebRequests :
        LET w == [web EXCEPT !.method = req.method,
                             !.bucketName = req.bucketName,
                             !.objectKey = req.objectKey,
                             !.encrypted = req.encrypted]
        IN  IF req.method = "GET"
            THEN web' = [w EXCEPT !.api = <<"getWebsite">>,
                                  !.pc = "getBucket"]
            ELSE IF req.method = "HEAD"
            THEN web' = [w EXCEPT !.api = <<"headWebsite">>,
                                  !.pc = "headWebsite"]
            ELSE LET written == responseXMLBody("MethodNotAllowed", None)
                 IN  web' = [w EXCEPT !.response = written,
                                      !.pc = IF written = <<>> THEN "crashed"
                                             ELSE "done"]
    /\ UNCHANGED <<putPartVars, pad, routing>>

(* getWebsite: metadata.getBucket answers websiteGet, whose callback is    *)
(* the one routerWebsite gave it                                           *)
WebsiteGetBucketReturn ==
    /\ web.pc = "getBucket"
    /\ \E a \in WebGetBucketAnswers(web.bucketName) :
        LET req == [method |-> web.method, bucketName |-> web.bucketName,
                    objectKey |-> web.objectKey, encrypted |-> web.encrypted]
            o == websiteGetCallback(req, a.err, a.value)
        IN  web' = [web EXCEPT
                !.answer = IF a.err # None THEN a.err[1] ELSE "bucket",
                !.consulted = o.consulted,
                !.key = o.key,
                !.keyRoutingRule = o.keyRoutingRule,
                !.callbacks = o.callbacks,
                !.response = o.written \o
                    [i \in 1..Len(o.callbacks) |->
                        GetWebsiteCallback(o.callbacks[i].err,
                                           o.callbacks[i].userErrorPageFailure,
                                           o.callbacks[i].dataGetInfo,
                                           o.callbacks[i].resMetaHeaders)],
                !.pc = o.pc]
    /\ UNCHANGED <<putPartVars, pad, routing>>

(* headWebsite answers *)
HeadWebsiteReturn ==
    /\ web.pc = "headWebsite"
    /\ \E err \in {None, Some("NoSuchBucket"), Some("InternalError")} :
        web' = [web EXCEPT
                !.callbacks = <<CallbackArgs(err)>>,
                !.response = <<HeadWebsiteCallback(err, None)>>,
                !.pc = "done"]
    /\ UNCHANGED <<putPartVars, pad, routing>>

NextWeb ==
    \/ RouterWebsite
    \/ WebsiteGetBucketReturn
    \/ HeadWebsiteReturn

SpecWeb == Init /\ [][NextWeb]_vars

----------------------------------------------------------------------------
(* Properties *)

Called(r, op) == \E i \in DOMAIN calls[r] : calls[r][i] = op

Answered(r, op, raw) ==
    \E i \in DOMAIN answers[r] : answers[r][i].op = op /\ answers[r][i].raw = raw

Failed(r, err) == result[r] = <<Outcome(Some(err), Undefined)>>

(* rejected by the pre-flight validation: nothing was called *)
Rejected(r, err) == Failed(r, err) /\ calls[r] = <<>>

(* the part records that refer to the data the request wrote *)
PartsOf(r) ==
    { p \in parts : local[r].location # None
                    /\ p.value.dataLocation[1].key = local[r].location[1].key }

(* C1: whenever an expected content hash was supplied and the hash of the  *)
(* data the backend stored differs from it, batchDelete was called exactly *)
(* once, on the location just written, the result is BadDigest and no part *)
(* metadata is written for the request.                                    *)
C1_IntegrityLaw ==
    \A r \in Reqs :
        ( /\ request[r].contentMD5 # Undefined
          /\ local[r].location # None
          /\ local[r].bodyMD5 # request[r].contentMD5 )
        => /\ local[r].deleted = <<local[r].location[1]>>
           /\ Failed(r, "BadDigest")
           /\ ~Called(r, "services.metadataStorePart")
           /\ PartsOf(r) = {}

(* C2: when the stored data's hash equals the expected hash, or none was   *)
(* supplied, the part metadata is written exactly once, with contentMD5    *)
(* equal to the hash of the stored data, and batchDelete is never called.  *)
C2_MatchingHashCommits ==
    \A r \in Reqs :
        ( /\ pc[r] \in {"storePart", "end"}
          /\ local[r].location # None
          /\ \/ request[r].contentMD5 = Undefined
             \/ request[r].contentMD5 = local[r].bodyMD5 )
        => /\ Len(SelectSeq(calls[r],
                    LAMBDA op : op = "services.metadataStorePart")) = 1
           /\ local[r].mdParams # None
           /\ local[r].mdParams[1].contentMD5 = local[r].bodyMD5
           /\ ~Called(r, "data.batchDelete")

(* the string is a decimal integer: an optional sign and digits only *)
IsDecimalInteger(s) ==
    LET u == IF s # <<>> /\ Head(s) \in {"+", "-"} THEN Tail(s) ELSE s
    IN  u # <<>> /\ \A i \in DOMAIN u : u[i] \in Digits

(* C3: a part number that is not an integer in [1, 10000] is rejected      *)
(* before any collaborator is called: TooManyParts above 10000,            *)
(* InvalidArgument below 1 or when it is no integer.                       *)
C3_PartNumberRange ==
    \A r \in Reqs :
        ( /\ pc[r] # "idle"
          /\ ~NumGT(request[r].parsedContentLength, MaxPartSize) )
        => LET s == request[r].partNumber
               n == ParseInt(s)
           IN  /\ (IsDecimalInteger(s) /\ NumGT(n, MaxPartNumber))
                      => Rejected(r, "TooManyParts")
               /\ (~IsDecimalInteger(s) \/ NumLT(n, One))
                      => Rejected(r, "InvalidArgument")

(* C4: a declared size above 5368709120 is rejected with EntityTooLarge    *)
(* before any collaborator is called; a size of 5368709120 or less is      *)
(* never answered with EntityTooLarge.                                     *)
C4_EntityTooLarge ==
    \A r \in Reqs :
        pc[r] # "idle"
        => IF NumGT(request[r].parsedContentLength, MaxPartSize)
           THEN Rejected(r, "EntityTooLarge")
           ELSE \A i \in DOMAIN result[r] :
                    result[r][i].err # Some("EntityTooLarge")

C4_Witness ==
    \E r \in Reqs :
        /\ NumGT(request[r].parsedContentLength, MaxPartSize)
        /\ Rejected(r, "EntityTooLarge")

(* C5: when the overview record is not found, the request fails with       *)
(* NoSuchUpload and data.put is never called.                              *)
C5_NoOverviewRecord ==
    \A r \in Reqs :
        Answered(r, "getObjectMD", Some("NoSuchKey"))
        => Failed(r, "NoSuchUpload") /\ ~Called(r, "data.put")

(* C6: when the requester's identity (the ARN of an IAM user, else the     *)
(* canonical id) differs from the overview record's initiator, the request *)
(* fails with AccessDenied and neither data.put nor metadataStorePart is   *)
(* ever called.                                                            *)
C6_InitiatorMismatch ==
    \A r \in Reqs :
        ( /\ local[r].initiatorID # None
          /\ local[r].initiatorID[1] #
                 (IF authInfo[r].iam THEN authInfo[r].arn
                  ELSE authInfo[r].canonicalID) )
        => /\ Failed(r, "AccessDenied")
           /\ ~Called(r, "data.put")
           /\ ~Called(r, "services.metadataStorePart")

C6_Witness ==
    \E r \in Reqs :
        /\ local[r].initiatorID = Some("alice")
        /\ authInfo[r].iam
        /\ authInfo[r].canonicalID = "alice"
        /\ Failed(r, "AccessDenied")

(* C7: a missing destination bucket fails the request with NoSuchBucket, a *)
(* requester without objectPut permission on the bucket with AccessDenied, *)
(* and in both cases no later stage runs.                                  *)
C7_DestinationBucket ==
    \A r \in Reqs :
        /\ Answered(r, "getBucket", Some("NoSuchBucket"))
               => /\ Failed(r, "NoSuchBucket")
                  /\ calls[r] = <<"metadata.getBucket">>
        /\ ( /\ Answered(r, "getBucket", None)
             /\ authInfo[r].canonicalID \notin Writers )
               => /\ Failed(r, "AccessDenied")
                  /\ calls[r] = <<"metadata.getBucket">>

(* C8: a missing shadow bucket fails the request with NoSuchUpload, and no *)
(* overview lookup, data write or metadata write happens.                  *)
C8_NoShadowBucket ==
    \A r \in Reqs :
        Answered(r, "getMpuBucket", Some("NoSuchBucket"))
        => /\ Failed(r, "NoSuchUpload")
           /\ ~Called(r, "metadata.getObjectMD")
           /\ ~Called(r, "data.put")
           /\ ~Called(r, "services.metadataStorePart")

C8_Witness ==
    \E r \in Reqs :
        /\ Answered(r, "getMpuBucket", Some("NoSuchBucket"))
        /\ request[r].bucketName = <<"noshadow">>
        /\ pc[r] = "end"

IsPrefix(s, t) == Len(s) <= Len(t) /\ s = SubSeq(t, 1, Len(s))

StageCalls(encrypted) ==
    <<"metadata.getBucket">>
    \o (IF encrypted THEN <<"kms.createCipherBundle">> ELSE <<>>)
    \o <<"metadata.getBucket", "metadata.getObjectMD", "data.put",
         "services.metadataStorePart">>

(* C9: the stages run in the order bucket fetch, authorization, cipher     *)
(* bundle (if encryption is declared), shadow bucket, overview lookup,     *)
(* data write, metadata write; after the first failing stage nothing more  *)
(* is called, and the caller gets that first error.                        *)
C9_StagesShortCircuit ==
    \A r \in Reqs :
        /\ IsPrefix(SelectSeq(calls[r], LAMBDA op : op # "data.batchDelete"),
                    StageCalls(Called(r, "kms.createCipherBundle")))
        /\ \A i \in DOMAIN answers[r] :
               answers[r][i].err # None
               => /\ Len(calls[r]) = answers[r][i].ncalls
                  /\ (\A j \in 1..(i - 1) : answers[r][j].err = None)
                         => result[r] = <<Outcome(answers[r][i].err, Undefined)>>

(* C10: a request that fails before the metadata write (validation,        *)
(* authorization, cipher bundle, shadow bucket, overview, data write,      *)
(* signature filter) leaves the part records as they were.                 *)
C10_MetadataWrittenLast ==
    \A r \in Reqs :
        ( /\ result[r] # <<>>
          /\ result[r][1].err # None
          /\ ~Answered(r, "storePart", Some("InternalError")) )
        => PartsOf(r) = {}

(* C11: every request delivers exactly one result: the callback given to   *)
(* dataStore is called at most once per invocation, the final callback of  *)
(* objectPutPart is called at most once, and a request that has come to    *)
(* its end has called it, also when the streaming filter reports a failed  *)
(* signature while or before data.put completes.                           *)
C11_ExactlyOneResult ==
    \A r \in Reqs :
        /\ local[r].cbCount <= 1
        /\ Len(result[r]) <= 1
        /\ pc[r] \in {"end", "crashed"} => Len(result[r]) = 1

(* C12: the splitter is chosen once from the shadow bucket's schema        *)
(* version, the legacy one below version 2 and the current one otherwise,  *)
(* and this one value builds the overview key that is looked up and is the *)
(* splitter field of the part record that is persisted.                    *)
C12_SplitterConsistent ==
    \A r \in Reqs :
        Called(r, "metadata.getObjectMD") =>
            LET version ==
                    buckets[MpuBucketName(request[r].bucketName)][1].version
                expected == IF version < 2 THEN <<"...!*!">> ELSE <<"..|..">>
            IN  /\ local[r].splitter = expected
                /\ local[r].overviewKey =
                       <<"overview">> \o expected \o request[r].objectKey
                           \o expected \o request[r].uploadId
                /\ local[r].mdParams # None =>
                       local[r].mdParams[1].splitter = expected
                /\ \A i \in DOMAIN mdLog :
                       mdLog[i].by = r =>
                           mdLog[i].rec.value.splitter = expected

C12_Witness ==
    \E r \in Reqs :
        /\ request[r].bucketName = <<"legacy">>
        /\ \E i \in DOMAIN mdLog :
               mdLog[i].by = r /\ mdLog[i].rec.value.splitter = oldSplitter

(* the value of a string of decimal digits *)
RECURSIVE DigitsValue(_)
DigitsValue(s) ==
    IF s = <<>> THEN 0
    ELSE 10 * DigitsValue(SubSeq(s, 1, Len(s) - 1)) + DigitVal(s[Len(s)])

(* s < t in the order of strings, for strings of decimal digits *)
RECURSIVE StringLT(_, _)
StringLT(s, t) ==
    IF t = <<>> THEN FALSE
    ELSE IF s = <<>> THEN TRUE
    ELSE IF Head(s) # Head(t) THEN DigitVal(Head(s)) < DigitVal(Head(t))
    ELSE StringLT(Tail(s), Tail(t))

(* C13: for every part number p from 1 to 10000 the padded part number is  *)
(* a string of exactly 5 decimal digits whose value is p (1 gives 00001,   *)
(* 10000 gives 10000), and of two part numbers the smaller one has the     *)
(* padded string that comes first in the order of strings.                 *)
C13_PaddingLaw ==
    pad.padded # <<>> =>
        LET p1 == pad.numbers[1]
            p2 == pad.numbers[2]
            s1 == pad.padded[1]
            s2 == pad.padded[2]
        IN  /\ Len(s1) = 5
            /\ \A i \in 1..Len(s1) : s1[i] \in Digits
            /\ DigitsValue(s1) = p1
            /\ p1 = 1 => s1 = <<"0", "0", "0", "0", "1">>
            /\ p1 = 10000 => s1 = <<"1", "0", "0", "0", "0">>
            /\ p1 < p2 => StringLT(s1, s2)
            /\ p2 < p1 => StringLT(s2, s1)

C13_Witness ==
    /\ pad.numbers = <<9999, 10000>>
    /\ pad.padded = << <<"0", "9", "9", "9", "9">>, <<"1", "0", "0", "0", "0">> >>

(* the indices of the part records the request wrote *)
WritesOf(r) == { i \in DOMAIN mdLog : mdLog[i].by = r }

Succeeded(r) == result[r] # <<>> /\ result[r][1].err = None

(* C14: when a request succeeds, its result is the content hash the data   *)
(* backend computed for the stored bytes, and the request persisted        *)
(* exactly one part record, with the zero-padded part number, the declared *)
(* size, the request's uploadId and the returned hash as contentMD5.       *)
C14_SuccessEffects ==
    \A r \in Reqs :
        Succeeded(r) =>
            /\ result[r][1].hexDigest = local[r].bodyMD5
            /\ Cardinality(WritesOf(r)) = 1
            /\ \A i \in WritesOf(r) :
                   LET v == mdLog[i].rec.value IN
                   /\ mdLog[i].rec.bucket = MpuBucketName(request[r].bucketName)
                   /\ mdLog[i].rec \in parts
                   /\ v.partNumber =
                          Last(<<"0", "0", "0", "0">>
                                   \o ParseInt(request[r].partNumber).digits, 5)
                   /\ v.size = request[r].parsedContentLength
                   /\ v.uploadId = request[r].uploadId
                   /\ v.contentMD5 = result[r][1].hexDigest

(* C15: when the destination bucket declares server-side encryption and    *)
(* the request succeeds, the location descriptor of the persisted record   *)
(* carries sseAlgorithm, sseMasterKeyId, sseCryptoScheme and               *)
(* sseCipheredDataKey equal to the fields of the cipher bundle the request *)
(* obtained; when the bucket declares none, kms is never called and the    *)
(* descriptor carries none of these fields.                                *)
C15_EncryptionFields ==
    \A r \in Reqs :
        pc[r] # "idle" /\ buckets[request[r].bucketName] # None =>
            LET bucket == buckets[request[r].bucketName][1]
                bundle == local[r].cipherBundle
            IN  /\ bucket.sse = None => ~Called(r, "kms.createCipherBundle")
                /\ Succeeded(r) =>
                       \A i \in WritesOf(r) :
                           LET d == mdLog[i].rec.value.dataLocation[1] IN
                           IF bucket.sse # None
                           THEN /\ bundle # None
                                /\ d.sse # None
                                /\ d.sse[1].sseAlgorithm = bundle[1].algorithm
                                /\ d.sse[1].sseMasterKeyId = bundle[1].masterKeyId
                                /\ d.sse[1].sseCryptoScheme = bundle[1].cryptoScheme
                                /\ d.sse[1].sseCipheredDataKey =
                                       bundle[1].cipheredDataKey
                           ELSE d.sse = None

C15_Witness ==
    \E r \in Reqs :
        /\ request[r].bucketName = <<"enc">>
        /\ Succeeded(r)
        /\ \E i \in WritesOf(r) :
               /\ mdLog[i].rec.value.dataLocation[1].sse # None
               /\ mdLog[i].rec.value.dataLocation[1].sse[1].sseCipheredDataKey
                      = "dk2"

(* two writes of the part metadata for the same part of the same upload *)
SamePart(i, j) ==
    /\ mdLog[i].rec.bucket = mdLog[j].rec.bucket
    /\ request[mdLog[i].by].uploadId = request[mdLog[j].by].uploadId
    /\ ParseInt(request[mdLog[i].by].partNumber)
           = ParseInt(request[mdLog[j].by].partNumber)

Superseded(i) == \E j \in DOMAIN mdLog : i < j /\ SamePart(i, j)

(* C16: last write wins. After any interleaving of commits for the same    *)
(* (uploadId, partNumber) the shadow bucket holds at most one live part    *)
(* record for the pair, the one whose metadata write happened last, and    *)
(* batchDelete was never called for the location a superseded record       *)
(* refers to.                                                              *)
C16_LastWriteWins ==
    /\ \A i \in DOMAIN mdLog :
           IF Superseded(i)
           THEN /\ mdLog[i].rec \notin parts
                /\ \A r \in Reqs : \A k \in DOMAIN local[r].deleted :
                       local[r].deleted[k].key
                           # mdLog[i].rec.value.dataLocation[1].key
           ELSE mdLog[i].rec \in parts
    /\ \A p, q \in parts :
           /\ p.bucket = q.bucket
           /\ p.value.uploadId = q.value.uploadId
           /\ p.value.partNumber = q.value.partNumber
           => p = q
    /\ \A p \in parts : \E i \in DOMAIN mdLog : mdLog[i].rec = p

C16_Witness ==
    /\ Len(mdLog) = 2
    /\ SamePart(1, 2)
    /\ mdLog[1].by # mdLog[2].by
    /\ Succeeded(mdLog[1].by)
    /\ Succeeded(mdLog[2].by)
    /\ parts = {mdLog[2].rec}

(* C17: concurrent requests are isolated. However the requests are         *)
(* interleaved, the splitter a request persists is the one of its own      *)
(* shadow bucket's schema version, and the encryption fields it persists   *)
(* are those of its own destination bucket and of the cipher bundle that   *)
(* was obtained for it, or none when its bucket declares no encryption.    *)
C17_RequestsIsolated ==
    \A i \in DOMAIN mdLog :
        LET r == mdLog[i].by
            bucket == buckets[request[r].bucketName][1]
            shadow == buckets[MpuBucketName(request[r].bucketName)][1]
            v == mdLog[i].rec.value
            d == v.dataLocation[1]
        IN  /\ v.splitter = IF shadow.version < 2 THEN oldSplitter
                            ELSE currentSplitter
            /\ IF bucket.sse = None
               THEN d.sse = None
               ELSE /\ d.sse # None
                    /\ d.sse[1].sseAlgorithm = bucket.sse[1].algorithm
                    /\ d.sse[1].sseMasterKeyId = bucket.sse[1].masterKeyId
                    /\ Answered(r, "kms", None)
                    /\ d.sse[1].sseCipheredDataKey
                           = local[r].cipherBundle[1].cipheredDataKey

(* a request to the encrypted bucket wrote its record while a request to   *)
(* the legacy bucket, whose data was stored first, still waits to write    *)
C17_Witness ==
    \E r, q \in Reqs :
        /\ request[r].bucketName = <<"legacy">>
        /\ request[q].bucketName = <<"enc">>
        /\ pc[r] = "storePart"
        /\ local[r].location # None
        /\ local[q].location # None
        /\ local[r].location[1].key < local[q].location[1].key
        /\ \E i \in DOMAIN mdLog :
               /\ mdLog[i].by = q
               /\ mdLog[i].rec.value.splitter = currentSplitter
               /\ mdLog[i].rec.value.dataLocation[1].sse # None

(* C18: a request at the website endpoint whose method is neither GET nor  *)
(* HEAD is answered with the 405 Method Not Allowed error response, and    *)
(* no website API method is called.                                        *)
C18_MethodNotAllowed ==
    web.pc # "idle" /\ web.method \notin {"GET", "HEAD"} =>
        /\ web.api = <<>>
        /\ Len(web.response) = 1
        /\ web.response[1].err = Some("MethodNotAllowed")
        /\ web.response[1].status = 405

(* the bucket the website request names is missing or shielded *)
WebNoSuchBucket ==
    \/ web.answer = "NoSuchBucket"
    \/ /\ web.answer = "bucket"
       /\ WebBuckets(web.bucketName)[1].transient
              \/ WebBuckets(web.bucketName)[1].deleted

(* C19: a GET at the website endpoint for a bucket that does not exist, or *)
(* that is shielded as transient or deleted, gives NoSuchBucket (404) to   *)
(* the route's callback, which renders it as the default error HTML; the   *)
(* website configuration is not read, and neither a redirect nor a data    *)
(* stream is produced.                                                     *)
C19_WebsiteNoSuchBucket ==
    web.method = "GET" /\ web.pc \notin {"idle", "getBucket"}
        /\ WebNoSuchBucket =>
        /\ web.callbacks = <<CallbackArgs(Some("NoSuchBucket"))>>
        /\ web.response =
               <<Written("errorHtml", Some("NoSuchBucket"), 404, Undefined)>>
        /\ ~web.consulted
        /\ web.pc = "done"

C19_Witness ==
    /\ web.method = "GET"
    /\ web.bucketName = "transient"
    /\ web.answer = "bucket"
    /\ web.response # <<>>
    /\ web.response[1].kind = "errorHtml"
    /\ web.response[1].status = 404

(* data.put reported no error to the request and gave it no location *)
PutWithoutLocation(r) ==
    Answered(r, "dataPut", None) /\ local[r].location = None

(* C20: when data.put reports no error but returns no location, dataStore  *)
(* calls back with InternalError and never with success, and batchDelete   *)
(* is not called; so no part record is ever written without a data         *)
(* location.                                                               *)
C20_NoLocationIsInternalError ==
    /\ \A r \in Reqs :
           PutWithoutLocation(r) =>
               /\ \A i \in DOMAIN answers[r] :
                      answers[r][i].op = "dataPut" =>
                          answers[r][i].err = Some("InternalError")
               /\ ~Succeeded(r)
               /\ ~Called(r, "data.batchDelete")
               /\ local[r].deleted = <<>>
               /\ ~Called(r, "services.metadataStorePart")
               /\ WritesOf(r) = {}
    /\ \A i \in DOMAIN mdLog :
           /\ local[mdLog[i].by].location # None
           /\ mdLog[i].rec.value.dataLocation
                  = <<[key |-> local[mdLog[i].by].location[1].key,
                       sse |-> mdLog[i].rec.value.dataLocation[1].sse]>>

C20_Witness ==
    \E r \in Reqs :
        /\ PutWithoutLocation(r)
        /\ Failed(r, "InternalError")
        /\ pc[r] = "end"

(* C21: kms.createCipherBundle is called only after the destination bucket *)
(* was fetched and the requester authorized, and only if the bucket        *)
(* declares server-side encryption; when it fails, its error is the        *)
(* request's result, unchanged, and the shadow bucket is never fetched,    *)
(* no data is written and no metadata is written.                          *)
C21_CipherBundleStage ==
    \A r \in Reqs :
        /\ Called(r, "kms.createCipherBundle") =>
               /\ SubSeq(calls[r], 1, 2)
                      = <<"metadata.getBucket", "kms.createCipherBundle">>
               /\ answers[r] # <<>>
               /\ answers[r][1] = [op |-> "getBucket", raw |-> None,
                                   err |-> None, ncalls |-> 1]
               /\ buckets[request[r].bucketName] # None
               /\ buckets[request[r].bucketName][1].sse # None
               /\ authInfo[r].canonicalID
                      \in buckets[request[r].bucketName][1].writers
        /\ \A i \in DOMAIN answers[r] :
               answers[r][i].op = "kms" /\ answers[r][i].raw # None =>
                   /\ pc[r] = "end"
                   /\ result[r] = <<Outcome(answers[r][i].raw, Undefined)>>
                   /\ calls[r]
                          = <<"metadata.getBucket", "kms.createCipherBundle">>
                   /\ local[r].location = None
                   /\ blobs = {}
                   /\ parts = {}
                   /\ mdLog = <<>>

C21_Witness ==
    \E r \in Reqs :
        /\ Answered(r, "kms", Some("InternalError"))
        /\ Failed(r, "InternalError")
        /\ Len(calls[r]) = 2

(* how often the request called a collaborator *)
CallCount(r, op) == Cardinality({ i \in DOMAIN calls[r] : calls[r][i] = op })

(* how often a stage of the request was answered *)
AnswerCount(r, op) ==
    Cardinality({ i \in DOMAIN answers[r] : answers[r][i].op = op })

RetryFreeStages ==
    {"getBucket", "kms", "getMpuBucket", "getObjectMD", "dataPut", "storePart"}

(* C22: no internal retries. Within one request the destination bucket     *)
(* fetch, the shadow bucket fetch, the overview lookup, createCipherBundle, *)
(* data.put and the part-metadata write are each called at most once, and  *)
(* after a failure of any of them the request makes no further call and    *)
(* does not succeed.                                                       *)
C22_NoRetries ==
    \A r \in Reqs :
        /\ CallCount(r, "metadata.getBucket") <= 2
        /\ AnswerCount(r, "getBucket") <= 1
        /\ AnswerCount(r, "getMpuBucket") <= 1
        /\ CallCount(r, "kms.createCipherBundle") <= 1
        /\ CallCount(r, "metadata.getObjectMD") <= 1
        /\ CallCount(r, "data.put") <= 1
        /\ CallCount(r, "services.metadataStorePart") <= 1
        /\ \A op \in RetryFreeStages : AnswerCount(r, op) <= 1
        /\ \A i \in DOMAIN answers[r] :
               answers[r][i].op \in RetryFreeStages
                   /\ answers[r][i].raw # None =>
                   /\ Len(calls[r]) = answers[r][i].ncalls
                   /\ pc[r] \in {"end", "crashed"}
                   /\ ~Succeeded(r)

C22_Witness ==
    \E r \in Reqs :
        /\ Answered(r, "storePart", Some("InternalError"))
        /\ CallCount(r, "services.metadataStorePart") = 1
        /\ CallCount(r, "metadata.getBucket") = 2
        /\ pc[r] = "end"

(* C23: observer detachment. On every path by which dataStore calls back   *)
(* after it attached its 'hashed' listener to the hash stream (success,    *)
(* BadDigest, hash not yet available), no listener of dataStore is left on *)
(* that stream.                                                            *)
C23_ListenerDetached ==
    \A r \in Reqs :
        Answered(r, "dataPut", None) /\ local[r].location # None =>
            local[r].listeners = 0

(* the conditions of a rule that are present are satisfied *)
RuleSatisfied(rule, key, errCode) ==
    /\ rule.condition.keyPrefixEquals # None =>
           StartsWith(key, rule.condition.keyPrefixEquals[1])
    /\ rule.condition.httpErrorCodeReturnedEquals # None =>
           errCode = rule.condition.httpErrorCodeReturnedEquals

(* C24: _findRoutingRule returns the redirect info of the first rule, in   *)
(* array order, whose present conditions are all satisfied, with           *)
(* prefixFromRule when the rule has a key-prefix condition; a rule that    *)
(* does not match never stops later rules from being considered, and       *)
(* undefined is returned only when no rule is satisfied or the list is     *)
(* undefined or empty.                                                     *)
C24_FirstSatisfiedRule ==
    routing.result # <<>> =>
        LET rules == IF routing.given[1] = None THEN <<>>
                     ELSE routing.given[1][1]
            key == routing.given[2]
            errCode == routing.given[3]
            satisfied == { i \in DOMAIN rules :
                               RuleSatisfied(rules[i], key, errCode) }
        IN  IF satisfied = {}
            THEN routing.result[1] = None
            ELSE LET first == CHOOSE i \in satisfied :
                                  \A j \in satisfied : i <= j
                 IN  routing.result[1] =
                         Some([prefixFromRule |->
                                   rules[first].condition.keyPrefixEquals,
                               redirect |-> rules[first].redirect])

(* C25: when the request carries an expected content digest, dataStore     *)
(* reports success only if the backend's hash is available at that moment  *)
(* and equals the digest; so no part record is persisted with an undefined *)
(* contentMD5 or with one that differs from the supplied digest.           *)
C25_SuccessNeedsHash ==
    \A r \in Reqs :
        pc[r] # "idle" /\ request[r].contentMD5 # Undefined =>
            /\ \A i \in DOMAIN answers[r] :
                   answers[r][i].op = "dataPut" /\ answers[r][i].err = None =>
                       /\ local[r].completedHash # Undefined
                       /\ local[r].completedHash = request[r].contentMD5
            /\ \A i \in WritesOf(r) :
                   mdLog[i].rec.value.contentMD5 = request[r].contentMD5

(* C26: every invocation of websiteGet completes the request: once the     *)
(* bucket metadata lookup has returned, websiteGet has either called its   *)
(* callback exactly once or ended the response with a redirect, whatever   *)
(* the bucket's state.                                                     *)
C26_WebsiteGetCompletes ==
    web.method = "GET" /\ web.pc \notin {"idle", "getBucket"} =>
        \/ /\ Len(web.callbacks) = 1
           /\ \A i \in DOMAIN web.response : web.response[i].kind # "redirect"
        \/ /\ web.callbacks = <<>>
           /\ Len(web.response) = 1
           /\ web.response[1].kind = "redirect"

====
